---- MODULE Spec2Model ----
(***************************************************************************)
(* Dock Otter: the reconciliation engine of src/main.go.                   *)
(*                                                                         *)
(* One process: main -> (syncApps once | Run: syncApps, then one syncApps  *)
(* per ticker tick until ctx is cancelled).  syncApps fetches the Dokploy  *)
(* inventory over a list of candidate endpoints, filters the entries,      *)
(* derives one Pangolin blueprint per domain binding and POSTs it with a   *)
(* bounded retry; processedApps is the in-memory ledger of published       *)
(* resource names.                                                         *)
(*                                                                         *)
(* Go strings that the engine transforms (DokployApp.Name and              *)
(* DokployDomain.Host) are sequences of characters, one one-character      *)
(* string per code point; "U+00C9" and "U+00E9" stand for the two-byte     *)
(* code points E-acute and e-acute, and "0xC3" for the lone lead byte left *)
(* when a byte slice cuts one of them in two.  Strings that are only       *)
(* compared or copied (AppName, Status, Path) are TLA+ strings.            *)
(***************************************************************************)
EXTENDS Integers, Sequences, FiniteSets, TLC

VARIABLES
    config,         \* Config, PollInterval in seconds
    pc,             \* where the process is
    ctxDone,        \* the context of Run has been cancelled
    cancelledMidPass, \* history: it was cancelled while a syncApps call was running
    tickPending,    \* ticker.C holds a tick (a channel of capacity 1)
    passCount,      \* number of syncApps calls started
    ticksTaken,     \* history: ticks Run has received from ticker.C
    endpointIdx,    \* getDokployProjects: index of the next candidate endpoint
    lastErr,        \* getDokployProjects: its lastErr, then the error it returned
    projects,       \* syncApps: the inventory fetched in this pass
    ei,             \* syncApps: index of the current entry, in iteration order
    di,             \* syncApps: index of the current domain of that entry
    processed,      \* syncApps counters
    skipped,
    errors,
    processedApps,  \* DockOtter.processedApps: the names mapped to true
    blueprint,      \* processAppDomain: the blueprint being published
    attempt,        \* createBlueprintWithRetry: the loop variable
    tried,          \* history: endpoints requested by the getDokployProjects call
    lastResp,       \* history: the answer to the latest request of that call
    trace,          \* history: what the current pass did with each entry/binding
    calls,          \* history: createBlueprint calls for the latest binding
    posts,          \* history: HTTP POSTs sent for the latest binding, saturating
    sleeps,         \* history: retry delays waited for the latest binding
    ledgerAtStart,  \* history: processedApps when the current pass started
    published,      \* history: per resource name, 2xx answers seen (up to PublishedCap)
    target,         \* the target system: per resource name, the blueprint it accepted last
    sent,           \* history: the HTTP requests the latest step of the engine sent
    answer,         \* history: what that step's POST was answered, "none" without one
    gets,           \* history: GET requests sent by the getDokployProjects call that
                    \* runs or has just returned, saturating; 0 otherwise
    recovery,       \* history: a binding that is followed from pass to pass, and
                    \* whether its publish failed in the pass before this one
    report,         \* what the latest finished syncApps call reported
    exitCode,       \* exit status of the process, -1 while it runs
    fnIn,           \* input of a function applied on its own
    fnOut           \* its result

engineVars == <<config, pc, ctxDone, cancelledMidPass, tickPending, passCount,
                ticksTaken, endpointIdx, lastErr, projects, ei, di, processed,
                skipped, errors, processedApps, blueprint, attempt, tried,
                lastResp, trace, calls, posts, sleeps, ledgerAtStart, published,
                target, sent, answer, gets, recovery, report, exitCode>>

fnVars == <<fnIn, fnOut>>

vars == <<engineVars, fnVars>>

(***************************************************************************)
(* Bounds of the model and constants of the program.                       *)
(***************************************************************************)
MaxPasses == 2

MaxRetryAttempts == 2

MaxNameLen == 63

ClientRetryCount == 2

MinPollInterval == 5

MaxRetryLimit == 10

PublishedCap == 2

(***************************************************************************)
(* Strings.                                                                *)
(***************************************************************************)
UpperCase == <<"A","B","C","D","E","F","G","H","I","J","K","L","M","N","O","P",
               "Q","R","S","T","U","V","W","X","Y","Z","U+00C9">>

LowerCase == <<"a","b","c","d","e","f","g","h","i","j","k","l","m","n","o","p",
               "q","r","s","t","u","v","w","x","y","z","U+00E9">>

TwoByte == {"U+00C9", "U+00E9"}

\* Number of bytes of the UTF-8 encoding of one character.
Utf8Len(c) == IF c \in TwoByte THEN 2 ELSE 1

RECURSIVE ByteLen(_)
\* Go's len(s): the number of bytes of s.
ByteLen(s) == IF s = <<>> THEN 0 ELSE Utf8Len(Head(s)) + ByteLen(Tail(s))

\* The first n bytes of the encoding of character c, 0 < n < Utf8Len(c).
Fragment(c, n) == "0xC3"

RECURSIVE ByteSlice(_, _)
\* Go's s[:n] for n <= len(s): the first n bytes of s.
ByteSlice(s, n) ==
    IF n = 0 \/ s = <<>> THEN <<>>
    ELSE IF Utf8Len(Head(s)) <= n
         THEN <<Head(s)>> \o ByteSlice(Tail(s), n - Utf8Len(Head(s)))
         ELSE <<Fragment(Head(s), n)>>

ToLowerRune(c) ==
    IF \E i \in DOMAIN UpperCase : UpperCase[i] = c
    THEN LowerCase[CHOOSE i \in DOMAIN UpperCase : UpperCase[i] = c]
    ELSE c

\* strings.ToLower
ToLower(s) == [i \in DOMAIN s |-> ToLowerRune(s[i])]

\* strings.ReplaceAll for a one-character old and new
ReplaceAll(s, old, new) == [i \in DOMAIN s |-> IF s[i] = old THEN new ELSE s[i]]

Repeat(c, n) == [i \in 1..n |-> c]

(***************************************************************************)
(* generateResourceName and resolveTargetPort.                             *)
(***************************************************************************)
generateResourceName(appName, domain) ==
    LET name0 == appName \o <<"-">> \o domain
        name1 == ToLower(name0)
        name2 == ReplaceAll(name1, ".", "-")
        name3 == ReplaceAll(name2, "_", "-")
    IN  IF ByteLen(name3) > MaxNameLen THEN ByteSlice(name3, MaxNameLen) ELSE name3

\* mutant: the port of the application goes before the port of the domain
resolveTargetPortAppFirst(app, domain) ==
    IF app.Port > 0 THEN app.Port
    ELSE IF domain.Port > 0 THEN domain.Port
    ELSE IF domain.HTTPS THEN 443
    ELSE 80

\* mutant: without the default ports
resolveTargetPortNoDefault(app, domain) ==
    IF domain.Port > 0 THEN domain.Port
    ELSE IF app.Port > 0 THEN app.Port
    ELSE 0

resolveTargetPort(app, domain) ==
    IF domain.Port > 0 THEN domain.Port
    ELSE IF app.Port > 0 THEN app.Port
    ELSE IF domain.HTTPS THEN 443
    ELSE 80

(***************************************************************************)
(* The inventories the source system can answer with.                      *)
(***************************************************************************)
Domain(host, path, port, https) ==
    [Host |-> host, Path |-> path, Port |-> port, HTTPS |-> https]

App(name, appName, status, port, domains) ==
    [Name |-> name, AppName |-> appName, Status |-> status, Port |-> port,
     Domains |-> domains]

Project(applications, compose) ==
    [Applications |-> applications, Compose |-> compose]

Web == <<"w","e","b">>

MyApp == <<"M","y","A","p","p">>

HostA == <<"a",".","i","o">>

HostB == <<"b",".","i","o">>

HostExample == <<"E","x","a","m","p","l","e",".","C","O","M">>

\* one binding without a host and two well-formed ones, all entries eligible
InvExample ==
    <<Project(<<App(Web, "web-x1", "done", 3000,
                    <<Domain(<<>>, "/", 0, FALSE),
                      Domain(HostA, "/", 0, FALSE),
                      Domain(HostB, "/api", 8080, TRUE)>>)>>,
              <<>>)>>

\* the binding web/a.io with another port, path and TLS flag; an entry that is
\* not running, one without domains, and a second project with a compose entry
InvDrift ==
    <<Project(<<App(Web, "web-x1", "done", 0,
                    <<Domain(HostA, "/v2", 9090, TRUE)>>),
                App(<<"o","l","d">>, "old-x2", "idle", 80,
                    <<Domain(<<"c",".","i","o">>, "/", 0, FALSE)>>)>>,
              <<App(<<"j","o","b">>, "job-x3", "done", 0, <<>>)>>),
      Project(<<>>,
              <<App(MyApp, "myapp-x4", "done", 0,
                    <<Domain(HostExample, "", 0, TRUE)>>)>>)>>

\* names that differ before normalisation and agree after it; a binding without
\* a host whose name is that of a binding with one; ports outside 1..65535
InvCollide ==
    <<Project(<<App(<<"x">>, "x-x5", "done", -5,
                    <<Domain(<<"y",".">>, "/", 70000, FALSE),
                      Domain(<<"y","_">>, "/b", 0, TRUE)>>)>>,
              <<App(<<"x","_","y">>, "xy-x6", "done", 0,
                    <<Domain(<<>>, "/", 0, FALSE)>>)>>)>>

Long58 == Repeat("a", 58)

\* a name of exactly MaxNameLen bytes, a longer one that is cut to the same
\* bytes, and one whose cut falls inside a two-byte character
InvLong ==
    <<Project(<<App(Long58, "long-x7", "done", 0,
                    <<Domain(HostB, "/", 0, FALSE),
                      Domain(<<"b",".","i","o","x">>, "/x", 0, TRUE)>>)>>,
              <<App(<<"U+00C9">> \o Repeat("a", 60) \o <<"U+00C9">>, "cafe-x8", "done", 0,
                    <<Domain(HostB, "/", 0, FALSE)>>)>>)>>

Inventories == {InvExample, InvDrift, InvCollide, InvLong}

\* the <<Name, Host>> of every binding of every inventory
BindingKeys ==
    UNION {UNION {UNION {{<<g[a].Name, g[a].Domains[d].Host>> : d \in DOMAIN g[a].Domains} :
                            a \in DOMAIN g} :
                     g \in UNION {{inv[p].Applications, inv[p].Compose} : p \in DOMAIN inv}} :
              inv \in Inventories}

\* generateResourceName(Name, Host) for each of them, computed once
ResourceNames == [x \in BindingKeys |-> generateResourceName(x[1], x[2])]

(***************************************************************************)
(* HTTP answers.  An answer is a transport error (err) or a response with  *)
(* a status and a body; a body of the source either decodes as a list of   *)
(* projects (json) or does not.                                            *)
(***************************************************************************)
NoBody == <<>>

TransportError == [err |-> TRUE, status |-> 0, json |-> FALSE, body |-> NoBody]

Response(status, json, body) ==
    [err |-> FALSE, status |-> status, json |-> json, body |-> body]

SourceResponses ==
    {TransportError, Response(404, FALSE, NoBody), Response(200, FALSE, NoBody)}
    \cup {Response(201, TRUE, inv) : inv \in {InvExample}}
    \cup {Response(200, TRUE, inv) : inv \in Inventories}

TargetResponses ==
    {TransportError} \cup
    {Response(s, FALSE, NoBody) : s \in {199, 200, 204, 299, 300, 404, 500}}

(***************************************************************************)
(* Configuration and initial state.                                        *)
(***************************************************************************)
\* mutant: the interval is checked in manual mode too
validateConfigIntervalAlways(cfg) ==
    IF cfg.DokployURL = "" THEN "DOKPLOY_URL is required"
    ELSE IF cfg.PangolinURL = "" THEN "PANGOLIN_URL is required"
    ELSE IF ~(cfg.PangolinToken # "" \/ cfg.PangolinAPIKey # "")
         THEN "Pangolin authentication required"
    ELSE IF cfg.PollInterval < MinPollInterval
         THEN "POLL_INTERVAL must be at least 5 seconds"
    ELSE IF cfg.RetryAttempts < 1 \/ cfg.RetryAttempts > MaxRetryLimit
         THEN "RETRY_ATTEMPTS must be between 1 and 10"
    ELSE "nil"

\* validateConfig: nil, or the error it returns.  PollInterval is in seconds.
validateConfig(cfg) ==
    IF cfg.DokployURL = "" THEN "DOKPLOY_URL is required"
    ELSE IF cfg.PangolinURL = "" THEN "PANGOLIN_URL is required"
    ELSE IF ~(cfg.PangolinToken # "" \/ cfg.PangolinAPIKey # "")
         THEN "Pangolin authentication required"
    ELSE IF ~cfg.RunOnce /\ cfg.PollInterval < MinPollInterval
         THEN "POLL_INTERVAL must be at least 5 seconds"
    ELSE IF cfg.RetryAttempts < 1 \/ cfg.RetryAttempts > MaxRetryLimit
         THEN "RETRY_ATTEMPTS must be between 1 and 10"
    ELSE "nil"

\* a configuration with every URL and credential set
DefaultConfig ==
    [DokployURL |-> "http://dokploy:3000", DokployAPIKey |-> "key",
     DokployToken |-> "", DokploySession |-> "",
     PangolinURL |-> "http://pangolin:3001", PangolinAPIKey |-> "",
     PangolinToken |-> "token", PollInterval |-> 30, RetryAttempts |-> 1,
     RunOnce |-> FALSE, ForceSync |-> FALSE]

\* the configurations whose passes are followed in full
RunConfigs ==
    {[DefaultConfig EXCEPT !.ForceSync = f, !.RunOnce = r, !.RetryAttempts = n] :
        f \in BOOLEAN, r \in BOOLEAN, n \in 1..MaxRetryAttempts}

\* what the environment may hold at startup: each URL and credential set or
\* not, an interval below and at the limit, retry counts around the limits
ConfigSpace ==
    [DokployURL : {"", "http://dokploy:3000"}, DokployAPIKey : {"", "key"},
     DokployToken : {""}, DokploySession : {"", "cookie"},
     PangolinURL : {"", "http://pangolin:3001"}, PangolinAPIKey : {"", "key"},
     PangolinToken : {"", "token"}, PollInterval : {MinPollInterval - 1, MinPollInterval},
     RetryAttempts : {-1, 0, 1, MaxRetryLimit + 1}, RunOnce : BOOLEAN, ForceSync : {FALSE}]

\* configurations that lack something and are accepted all the same
LenientConfigs ==
    {[DefaultConfig EXCEPT !.RunOnce = TRUE, !.DokployAPIKey = ""],
     [DefaultConfig EXCEPT !.RunOnce = TRUE, !.DokployAPIKey = "",
                           !.DokploySession = "cookie"],
     [DefaultConfig EXCEPT !.RunOnce = TRUE, !.PangolinToken = "",
                           !.PangolinAPIKey = "key"],
     [DefaultConfig EXCEPT !.RunOnce = TRUE, !.PollInterval = MinPollInterval - 1]}

Configs ==
    RunConfigs \cup LenientConfigs \cup {c \in ConfigSpace : validateConfig(c) # "nil"}

NoErr == [endpoint |-> "", kind |-> "nil", status |-> 0]

NoResponse == [err |-> FALSE, status |-> -1, json |-> FALSE, body |-> NoBody]

NoBlueprint == <<>>

NoReport == [result |-> "none", processed |-> 0, skipped |-> 0, errors |-> 0,
             err |-> NoErr]

NoFn == [domainPort |-> 0, appPort |-> 0, https |-> FALSE]

NoOut == [done |-> FALSE, value |-> 0]

NoBinding == <<>>

\* no binding is followed
NoRecovery == [binding |-> NoBinding, failed |-> FALSE]

\* NewDockOtter, before main calls syncApps or Run
Init ==
    /\ config \in Configs
    /\ pc = "main"
    /\ ctxDone = FALSE
    /\ cancelledMidPass = FALSE
    /\ tickPending = FALSE
    /\ passCount = 0
    /\ ticksTaken = 0
    /\ endpointIdx = 0
    /\ lastErr = NoErr
    /\ projects = <<>>
    /\ ei = 0
    /\ di = 0
    /\ processed = 0
    /\ skipped = 0
    /\ errors = 0
    /\ processedApps = {}
    /\ blueprint = NoBlueprint
    /\ attempt = 0
    /\ tried = <<>>
    /\ lastResp = NoResponse
    /\ trace = <<>>
    /\ calls = 0
    /\ posts = 0
    /\ sleeps = 0
    /\ ledgerAtStart = {}
    /\ published = [n \in {} |-> 0]
    /\ target = [n \in {} |-> NoBlueprint]
    /\ sent = {}
    /\ answer = "none"
    /\ gets = 0
    /\ recovery = NoRecovery
    /\ report = NoReport
    /\ exitCode = -1
    /\ fnIn = NoFn
    /\ fnOut = NoOut

(***************************************************************************)
(* syncApps: start and end of a pass.                                      *)
(***************************************************************************)
\* the pass that has just ended counted binding b (<<Name, Host>>) as errored
\* because its publish failed
FailedInPass(b) ==
    /\ b # NoBinding
    /\ \E i \in DOMAIN trace :
          /\ trace[i].result = "publish-failed"
          /\ LET app == (IF trace[i].group = "Applications"
                         THEN projects[trace[i].p].Applications
                         ELSE projects[trace[i].p].Compose)[trace[i].a]
             IN  <<app.Name, app.Domains[trace[i].d].Host>> = b

\* the call of syncApps up to the first request of getDokployProjects
BeginSync ==
    /\ pc' = "fetch"
    /\ passCount' = passCount + 1
    /\ endpointIdx' = 1
    /\ lastErr' = NoErr
    /\ projects' = <<>>
    /\ tried' = <<>>
    /\ lastResp' = NoResponse
    /\ trace' = <<>>
    /\ calls' = 0
    /\ posts' = 0
    /\ sleeps' = 0
    /\ ledgerAtStart' = processedApps
    /\ recovery' = [recovery EXCEPT !.failed = FailedInPass(recovery.binding)]
    /\ report' = NoReport
    /\ UNCHANGED <<config, ei, di, processed, skipped, errors, processedApps,
                   blueprint, attempt, published, target, exitCode>>

\* mutant: Run returns the error of a failed pass and main exits
ReturnFromSyncStopOnFailure(result, p, s, e, err) ==
    /\ report' = [result |-> result, processed |-> p, skipped |-> s, errors |-> e,
                  err |-> err]
    /\ processed' = 0
    /\ skipped' = 0
    /\ errors' = 0
    /\ ei' = 0
    /\ di' = 0
    /\ IF config.RunOnce \/ result = "failed"
       THEN /\ pc' = "exit"
            /\ exitCode' = IF result = "failed" THEN 1 ELSE 0
       ELSE /\ pc' = "select"
            /\ exitCode' = exitCode

\* mutant: after the manual sync main goes on into the loop of Run
ReturnFromSyncIntoLoop(result, p, s, e, err) ==
    /\ report' = [result |-> result, processed |-> p, skipped |-> s, errors |-> e,
                  err |-> err]
    /\ processed' = 0
    /\ skipped' = 0
    /\ errors' = 0
    /\ ei' = 0
    /\ di' = 0
    /\ pc' = "select"
    /\ exitCode' = exitCode

\* mutant: a pass with errored bindings returns an error
ReturnFromSyncFailOnErrors(result, p, s, e, err) ==
    /\ report' = [result |-> IF e > 0 THEN "failed" ELSE result, processed |-> p,
                  skipped |-> s, errors |-> e, err |-> err]
    /\ processed' = 0
    /\ skipped' = 0
    /\ errors' = 0
    /\ ei' = 0
    /\ di' = 0
    /\ IF config.RunOnce
       THEN /\ pc' = "exit"
            /\ exitCode' = IF result = "failed" \/ e > 0 THEN 1 ELSE 0
       ELSE /\ pc' = "select"
            /\ exitCode' = exitCode

\* syncApps returns to main (RunOnce) or to Run, which goes on to its select
ReturnFromSync(result, p, s, e, err) ==
    /\ report' = [result |-> result, processed |-> p, skipped |-> s, errors |-> e,
                  err |-> err]
    /\ processed' = 0
    /\ skipped' = 0
    /\ errors' = 0
    /\ ei' = 0
    /\ di' = 0
    /\ IF config.RunOnce
       THEN /\ pc' = "exit"
            /\ exitCode' = IF result = "failed" THEN 1 ELSE 0
       ELSE /\ pc' = "select"
            /\ exitCode' = exitCode

(***************************************************************************)
(* getDokployProjects.                                                     *)
(***************************************************************************)
endpoints == <<"/api/projects", "/api/project/all", "/api/project", "/api/applications">>

\* the request getDokployProjects sends for one endpoint
SourceRequest(endpoint) == [system |-> "source", method |-> "GET", path |-> endpoint]

\* the request of testConnectivity to the target
DocsRequest == [system |-> "target", method |-> "GET", path |-> "/v1/docs"]

\* mutant: the blueprint is PUT
PublishRequestPut == [system |-> "target", method |-> "PUT", path |-> "/v1/blueprints"]

\* the request createBlueprint sends
PublishRequest == [system |-> "target", method |-> "POST", path |-> "/v1/blueprints"]

\* the requests one call of testConnectivity may send: those of
\* getDokployProjects to every endpoint when none answers, or up to the one
\* that answers and then the one for the target's docs
testConnectivity ==
    {{SourceRequest(endpoints[i]) : i \in DOMAIN endpoints}}
    \cup {{SourceRequest(endpoints[i]) : i \in 1..k} \cup {DocsRequest} :
             k \in DOMAIN endpoints}

\* mutant: any 2xx whose body decodes will do
FetchSucceededAny2xx(resp) == ~resp.err /\ resp.status \in 200..299 /\ resp.json

\* the answer is a 200 whose body decodes
FetchSucceeded(resp) == ~resp.err /\ resp.status = 200 /\ resp.json

FetchError(endpoint, resp) ==
    IF resp.err THEN [endpoint |-> endpoint, kind |-> "transport", status |-> 0]
    ELSE IF resp.status = 200
         THEN [endpoint |-> endpoint, kind |-> "decode", status |-> 200]
         ELSE [endpoint |-> endpoint, kind |-> "status", status |-> resp.status]

\* mutant: the first failure is kept
LastErrKeepFirst(prev, endpoint, resp) ==
    IF prev = NoErr THEN FetchError(endpoint, resp) ELSE prev

\* lastErr after a failed candidate: each failure overwrites the one before
LastErrAfter(prev, endpoint, resp) == FetchError(endpoint, resp)

Min(a, b) == IF a < b THEN a ELSE b

\* GET requests the client sends for one Get call: it repeats a request that
\* ends in a transport error, ClientRetryCount times at most
GetsSent(resp) ==
    IF resp.err THEN {ClientRetryCount + 1} ELSE 1..(ClientRetryCount + 1)

\* one iteration of the loop over the endpoints: one Get call and its answer
GetDokployProjects ==
    /\ pc = "fetch"
    /\ UNCHANGED recovery
    /\ sent' = {SourceRequest(endpoints[endpointIdx])}
    /\ answer' = "none"
    /\ endpointIdx <= Len(endpoints)
    /\ \E resp \in SourceResponses : \E k \in GetsSent(resp) :
          /\ tried' = Append(tried, endpoints[endpointIdx])
          /\ lastResp' = resp
          /\ gets' = Min(gets + k, Len(endpoints) + 1)
          /\ IF FetchSucceeded(resp)
             THEN /\ projects' = resp.body
                  /\ lastErr' = NoErr
                  /\ endpointIdx' = 0
                  /\ pc' = "fetched"
             ELSE /\ projects' = <<>>
                  /\ lastErr' = LastErrAfter(lastErr, endpoints[endpointIdx], resp)
                  /\ endpointIdx' = endpointIdx + 1
                  /\ pc' = IF endpointIdx + 1 <= Len(endpoints) THEN "fetch" ELSE "fetched"
    /\ UNCHANGED <<config, ctxDone, cancelledMidPass, tickPending, passCount,
                   ticksTaken, ei, di, processed, skipped, errors,
                   processedApps, blueprint, attempt, trace, calls, posts,
                   sleeps, ledgerAtStart, published, target, report, exitCode,
                   fnVars>>

(***************************************************************************)
(* syncApps: the loops over projects, entries and domains.                 *)
(***************************************************************************)
\* the entries of one group of project p, each with its place
Tagged(apps, p, group) ==
    [i \in 1..Len(apps) |-> [p |-> p, group |-> group, a |-> i, app |-> apps[i]]]

RECURSIVE EntriesFrom(_, _)
\* the entries in the order syncApps visits them: project by project, the
\* Applications of a project before its Compose
EntriesFrom(projs, p) ==
    IF p > Len(projs) THEN <<>>
    ELSE Tagged(projs[p].Applications, p, "Applications")
         \o Tagged(projs[p].Compose, p, "Compose")
         \o EntriesFrom(projs, p + 1)

Entries(projs) == EntriesFrom(projs, 1)

\* mutant: the status is not looked at
EligibleWhateverStatus(app) == Len(app.Domains) # 0

\* neither of the two `continue` conditions holds
Eligible(app) == app.Status = "done" /\ Len(app.Domains) # 0

\* what the pass did with the current entry (d = 0) or with its current domain
Event(kind, result) ==
    [kind |-> kind, p |-> Entries(projects)[ei].p, group |-> Entries(projects)[ei].group,
     a |-> Entries(projects)[ei].a, d |-> IF kind = "entry" THEN 0 ELSE di,
     result |-> result]

\* mutant: the loops look at the context and end the pass once it is cancelled
ContinueUnlessCancelled(e2, d2, p, s, e) ==
    IF e2 > Len(Entries(projects)) \/ ctxDone
    THEN ReturnFromSync("completed", p, s, e, NoErr)
    ELSE /\ pc' = "loop"
         /\ ei' = e2
         /\ di' = d2
         /\ processed' = p
         /\ skipped' = s
         /\ errors' = e
         /\ UNCHANGED <<report, exitCode>>

\* the loops go on to entry e2, domain d2 with the counters p, s, e,
\* or syncApps ends when no entry is left
Continue(e2, d2, p, s, e) ==
    IF e2 > Len(Entries(projects))
    THEN ReturnFromSync("completed", p, s, e, NoErr)
    ELSE /\ pc' = "loop"
         /\ ei' = e2
         /\ di' = d2
         /\ processed' = p
         /\ skipped' = s
         /\ errors' = e
         /\ UNCHANGED <<report, exitCode>>

\* mutant: an error ends the domain loop of the entry
NextDomainBreakOnError(p, e) ==
    IF e = errors /\ di < Len(Entries(projects)[ei].app.Domains)
    THEN Continue(ei, di + 1, p, skipped, e)
    ELSE Continue(ei + 1, 1, p, skipped, e)

\* the domain loop of the current entry goes on, or the entry loop does
NextDomain(p, e) ==
    IF di < Len(Entries(projects)[ei].app.Domains)
    THEN Continue(ei, di + 1, p, skipped, e)
    ELSE Continue(ei + 1, 1, p, skipped, e)

\* mutant: the error of getDokployProjects is not looked at
FetchFailedIgnored == FALSE

\* syncApps: err != nil after getDokployProjects
FetchFailed == lastErr # NoErr

\* getDokployProjects has returned: the error check and the counters
SyncApps ==
    /\ pc = "fetched"
    /\ UNCHANGED recovery
    /\ sent' = {}
    /\ answer' = "none"
    /\ gets' = 0
    /\ IF FetchFailed
       THEN ReturnFromSync("failed", 0, 0, 0, lastErr)
       ELSE Continue(1, 1, 0, 0, 0)
    /\ lastErr' = NoErr
    /\ tried' = <<>>
    /\ lastResp' = NoResponse
    /\ UNCHANGED <<config, ctxDone, cancelledMidPass, tickPending, passCount,
                   ticksTaken, endpointIdx, projects, processedApps, blueprint,
                   attempt, trace, calls, posts, sleeps, ledgerAtStart,
                   published, target, fnVars>>

\* an entry that is not running or has no domain
SkipEntry ==
    /\ pc = "loop"
    /\ UNCHANGED recovery
    /\ sent' = {}
    /\ answer' = "none"
    /\ gets' = 0
    /\ ~Eligible(Entries(projects)[ei].app)
    /\ trace' = Append(trace, Event("entry", "skipped"))
    /\ Continue(ei + 1, 1, processed, skipped + 1, errors)
    /\ UNCHANGED <<config, ctxDone, cancelledMidPass, tickPending, passCount,
                   ticksTaken, endpointIdx, lastErr, projects, processedApps,
                   blueprint, attempt, tried, lastResp, calls, posts, sleeps,
                   ledgerAtStart, published, target, fnVars>>

(***************************************************************************)
(* processAppDomain.                                                       *)
(***************************************************************************)
\* mutants of the ledger check: no check at all; a check that ForceSync does
\* not switch off
AlreadyProcessedNever(resourceName) == FALSE

AlreadyProcessedDespiteForce(resourceName) == resourceName \in processedApps

\* mutant: the host is validated before the ledger is looked at
AlreadyProcessedAfterHostCheck(resourceName) ==
    /\ Entries(projects)[ei].app.Domains[di].Host # <<>>
    /\ ~config.ForceSync
    /\ resourceName \in processedApps

\* the ledger check
AlreadyProcessed(resourceName) == ~config.ForceSync /\ resourceName \in processedApps

TargetMethod(domain) == IF domain.HTTPS THEN "https" ELSE "http"

\* mutant: the path of the binding is taken as it is
TargetPathAsIs(domain) == domain.Path

TargetPath(domain) == IF domain.Path # "" /\ domain.Path # "/" THEN domain.Path ELSE "/"

Blueprint(resourceName, app, domain, targetPort) ==
    [ProxyResources |->
        <<[Name |-> resourceName,
           Protocol |-> "http",
           FullDomain |-> domain.Host,
           SSL |-> domain.HTTPS,
           Enabled |-> TRUE,
           Targets |-> <<[Hostname |-> app.AppName,
                          Port |-> targetPort,
                          Method |-> TargetMethod(domain),
                          Enabled |-> TRUE,
                          Path |-> TargetPath(domain)]>>]>>]

\* mutant: the loop stops one attempt early
RetryLoopCondOneShort(a) == a < config.RetryAttempts

\* mutant: the loop makes one attempt more
RetryLoopCondOneMore(a) == a <= config.RetryAttempts + 1

\* the loop condition and the sleep condition of createBlueprintWithRetry
RetryLoopCond(a) == a <= config.RetryAttempts

\* mutant: the delay is waited after every failed attempt
RetrySleepCondAlways(a) == TRUE

RetrySleepCond(a) == a < config.RetryAttempts

\* processAppDomain for the current domain, up to its return or to the first
\* createBlueprint call
ProcessAppDomain ==
    /\ pc = "loop"
    /\ UNCHANGED recovery
    /\ sent' = {}
    /\ answer' = "none"
    /\ gets' = 0
    /\ Eligible(Entries(projects)[ei].app)
    /\ LET app == Entries(projects)[ei].app
           domain == app.Domains[di]
           resourceName == ResourceNames[<<app.Name, domain.Host>>]
           targetPort == resolveTargetPort(app, domain)
           return(result) ==
               /\ trace' = Append(trace, Event("binding", result))
               /\ IF result = "already" THEN NextDomain(processed + 1, errors)
                                        ELSE NextDomain(processed, errors + 1)
               /\ UNCHANGED <<blueprint, attempt>>
       IN  IF AlreadyProcessed(resourceName) THEN return("already")
           ELSE IF domain.Host = <<>> THEN return("empty-host")
           ELSE IF targetPort = 0 THEN return("no-port")
           ELSE IF ~RetryLoopCond(1) THEN return("publish-failed")
           ELSE /\ blueprint' = Blueprint(resourceName, app, domain, targetPort)
                /\ attempt' = 1
                /\ pc' = "attempt"
                /\ UNCHANGED <<ei, di, processed, skipped, errors, trace, report,
                               exitCode>>
    /\ calls' = 0
    /\ posts' = 0
    /\ sleeps' = 0
    /\ UNCHANGED <<config, ctxDone, cancelledMidPass, tickPending, passCount,
                   ticksTaken, endpointIdx, lastErr, projects, processedApps,
                   tried, lastResp, ledgerAtStart, published, target, fnVars>>

(***************************************************************************)
(* createBlueprintWithRetry and createBlueprint.                           *)
(***************************************************************************)
\* the target system accepted the blueprint: it answered with a 2xx
Answered2xx(resp) == ~resp.err /\ resp.status \in 200..299

\* what an answer of the target is to the engine's history
AnswerClass(resp) == IF Answered2xx(resp) THEN "2xx" ELSE "other"

\* mutant: only an error status counts as a failure
IsSuccessBelow400(status) == ~(status < 200 \/ status >= 400)

\* createBlueprint: the status check
IsSuccess(status) == ~(status < 200 \/ status >= 300)

\* HTTP requests one Post of pangolinClient sends: the client repeats a request
\* that ends in a transport error, ClientRetryCount times at most
PostsSent(resp) ==
    IF resp.err THEN {ClientRetryCount + 1} ELSE 1..(ClientRetryCount + 1)

Count(f, n) == IF n \in DOMAIN f THEN f[n] ELSE 0

\* mutant: the name is put into the ledger whatever became of the publish
LedgerAfterFailureMarked(name) == processedApps \cup {name}

\* processAppDomain returns the error of createBlueprintWithRetry before it gets
\* to the ledger
LedgerAfterFailure(name) == processedApps

\* one iteration of the retry loop: one createBlueprint call, then the return of
\* createBlueprintWithRetry, the sleep, or the next iteration.  The lastErr of
\* this loop only ends up in the text of the error returned and is not kept.
CreateBlueprintWithRetry ==
    /\ pc = "attempt"
    /\ UNCHANGED recovery
    /\ sent' = {PublishRequest}
    /\ \E resp \in TargetResponses : \E k \in PostsSent(resp) :
          LET name == blueprint.ProxyResources[1].Name
              slept == IF RetrySleepCond(attempt) THEN sleeps + 1 ELSE sleeps
          IN  /\ calls' = calls + 1
              /\ answer' = AnswerClass(resp)
              /\ gets' = 0
              /\ posts' = Min(posts + k, MaxRetryAttempts + 1)
              /\ IF Answered2xx(resp)
                 THEN /\ published' =
                            [n \in DOMAIN published \cup {name} |->
                                IF n = name THEN Min(Count(published, n) + 1, PublishedCap)
                                            ELSE published[n]]
                      /\ target' = [n \in DOMAIN target \cup {name} |->
                                        IF n = name THEN blueprint ELSE target[n]]
                 ELSE UNCHANGED <<published, target>>
              /\ IF ~resp.err /\ IsSuccess(resp.status)
                 THEN /\ processedApps' = processedApps \cup {name}
                      /\ trace' = Append(trace, Event("binding", "published"))
                      /\ NextDomain(processed + 1, errors)
                      /\ blueprint' = NoBlueprint
                      /\ attempt' = 0
                      /\ sleeps' = sleeps
                      /\ UNCHANGED lastErr
                 ELSE IF RetryLoopCond(attempt + 1)
                 THEN /\ attempt' = attempt + 1
                      /\ sleeps' = slept
                      /\ UNCHANGED <<lastErr, pc, ei, di, processed, skipped, errors, trace,
                                     report, exitCode, processedApps, blueprint>>
                 ELSE /\ trace' = Append(trace, Event("binding", "publish-failed"))
                      /\ NextDomain(processed, errors + 1)
                      /\ blueprint' = NoBlueprint
                      /\ attempt' = 0
                      /\ sleeps' = slept
                      /\ processedApps' = LedgerAfterFailure(name)
                      /\ UNCHANGED lastErr
    /\ UNCHANGED <<config, ctxDone, cancelledMidPass, tickPending, passCount,
                   ticksTaken, endpointIdx, projects, tried, lastResp,
                   ledgerAtStart, fnVars>>

(***************************************************************************)
(* main and Run.                                                           *)
(***************************************************************************)
\* main: a configuration error ends the process; manual mode calls syncApps,
\* daemon mode sets up the signal handler and calls Run
Main ==
    /\ pc = "main"
    /\ sent' = {}
    /\ answer' = "none"
    /\ gets' = 0
    /\ ticksTaken' = ticksTaken
    /\ IF validateConfig(config) # "nil"
       THEN /\ pc' = "exit"
            /\ exitCode' = 1
            /\ UNCHANGED <<config, passCount, endpointIdx, lastErr, projects, ei, di,
                           processed, skipped, errors, processedApps, blueprint,
                           attempt, tried, lastResp, trace, calls, posts, sleeps,
                           ledgerAtStart, published, target, recovery, report>>
       ELSE IF config.RunOnce
       THEN BeginSync
       ELSE /\ pc' = "run"
            /\ UNCHANGED <<config, passCount, endpointIdx, lastErr, projects, ei, di,
                           processed, skipped, errors, processedApps, blueprint,
                           attempt, tried, lastResp, trace, calls, posts, sleeps,
                           ledgerAtStart, published, target, recovery, report,
                           exitCode>>
    /\ UNCHANGED <<ctxDone, cancelledMidPass, tickPending, fnVars>>

\* Run up to the initial sync: the connectivity test, the ticker
Run ==
    /\ pc = "run"
    /\ sent' \in testConnectivity
    /\ answer' = "none"
    /\ gets' = 0
    /\ BeginSync
    /\ ticksTaken' = ticksTaken
    /\ UNCHANGED <<ctxDone, cancelledMidPass, tickPending, fnVars>>

\* the select of Run takes the ctx.Done case
SelectDone ==
    /\ pc = "select"
    /\ UNCHANGED recovery
    /\ sent' = {}
    /\ answer' = "none"
    /\ gets' = 0
    /\ ctxDone
    /\ pc' = "exit"
    /\ exitCode' = 0
    /\ UNCHANGED <<config, ctxDone, cancelledMidPass, tickPending, passCount,
                   ticksTaken, endpointIdx, lastErr, projects, ei, di,
                   processed, skipped, errors, processedApps, blueprint,
                   attempt, tried, lastResp, trace, calls, posts, sleeps,
                   ledgerAtStart, published, target, report, fnVars>>

\* the select of Run takes the ticker.C case
SelectTick ==
    /\ pc = "select"
    /\ sent' = {}
    /\ answer' = "none"
    /\ gets' = 0
    /\ tickPending
    /\ passCount < MaxPasses
    /\ tickPending' = FALSE
    /\ ticksTaken' = ticksTaken + 1
    /\ BeginSync
    /\ UNCHANGED <<ctxDone, cancelledMidPass, fnVars>>

\* the ticker fires: the tick is buffered in ticker.C, or dropped when one is
\* there.  Run reads ticker.C only in its select, so a tick that fires while a
\* pass runs is the same as one that fires when Run is back at the select.
TickerFires ==
    /\ ~config.RunOnce
    /\ pc = "select"
    /\ ~tickPending
    /\ tickPending' = TRUE
    /\ UNCHANGED <<sent, answer, gets, recovery, config, pc, ctxDone, cancelledMidPass, passCount,
                   ticksTaken, endpointIdx, lastErr, projects, ei, di,
                   processed, skipped, errors, processedApps, blueprint,
                   attempt, tried, lastResp, trace, calls, posts, sleeps,
                   ledgerAtStart, published, target, report, exitCode, fnVars>>

\* SIGINT or SIGTERM: the signal goroutine cancels the context
Cancel ==
    /\ ~config.RunOnce
    /\ pc \in {"run", "fetch", "fetched", "loop", "attempt", "select"}
    /\ ~ctxDone
    /\ ctxDone' = TRUE
    /\ cancelledMidPass' = (pc \in {"fetch", "fetched", "loop", "attempt"})
    /\ UNCHANGED <<sent, answer, gets, recovery, config, pc, tickPending, passCount, ticksTaken,
                   endpointIdx, lastErr, projects, ei, di, processed, skipped,
                   errors, processedApps, blueprint, attempt, tried, lastResp,
                   trace, calls, posts, sleeps, ledgerAtStart, published,
                   target, report, exitCode, fnVars>>

Next ==
    \/ Main
    \/ Run
    \/ GetDokployProjects
    \/ SyncApps
    \/ SkipEntry
    \/ ProcessAppDomain
    \/ CreateBlueprintWithRetry
    \/ SelectDone
    \/ SelectTick
    \/ TickerFires
    \/ Cancel

Spec == Init /\ [][Next]_vars

(***************************************************************************)
(* resolveTargetPort applied on its own to every triple of a grid of ports. *)
(***************************************************************************)
Ports == {-1, 0, 1, 80, 443, 3000, 65535, 65536}

FnInit ==
    /\ config = [ForceSync |-> FALSE, RunOnce |-> TRUE, RetryAttempts |-> 1]
    /\ pc = "fn"
    /\ ctxDone = FALSE
    /\ cancelledMidPass = FALSE
    /\ tickPending = FALSE
    /\ passCount = 0
    /\ ticksTaken = 0
    /\ endpointIdx = 0
    /\ lastErr = NoErr
    /\ projects = <<>>
    /\ ei = 0
    /\ di = 0
    /\ processed = 0
    /\ skipped = 0
    /\ errors = 0
    /\ processedApps = {}
    /\ blueprint = NoBlueprint
    /\ attempt = 0
    /\ tried = <<>>
    /\ lastResp = NoResponse
    /\ trace = <<>>
    /\ calls = 0
    /\ posts = 0
    /\ sleeps = 0
    /\ ledgerAtStart = {}
    /\ published = [n \in {} |-> 0]
    /\ target = [n \in {} |-> NoBlueprint]
    /\ sent = {}
    /\ answer = "none"
    /\ gets = 0
    /\ recovery = NoRecovery
    /\ report = NoReport
    /\ exitCode = -1
    /\ fnIn \in [domainPort : Ports, appPort : Ports, https : BOOLEAN]
    /\ fnOut = NoOut

ResolveTargetPort ==
    /\ pc = "fn"
    /\ ~fnOut.done
    /\ fnOut' = [done |-> TRUE,
                 value |-> resolveTargetPort([Port |-> fnIn.appPort],
                                             [Port |-> fnIn.domainPort,
                                              HTTPS |-> fnIn.https])]
    /\ UNCHANGED <<engineVars, fnIn>>

FnNext == ResolveTargetPort

FnSpec == FnInit /\ [][FnNext]_vars

(***************************************************************************)
(* Properties.                                                             *)
(***************************************************************************)
Last(seq) == seq[Len(seq)]

IsBinding(ev) == ev.kind = "binding"

BindingEvents == SelectSeq(trace, IsBinding)

ErrorResults == {"empty-host", "no-port", "publish-failed"}

Groups == {"Applications", "Compose"}

GroupOf(p, g) == IF g = "Applications" THEN projects[p].Applications
                                       ELSE projects[p].Compose

\* the places <<project, group, entry>> of the entries of the fetched inventory
EntryPlaces ==
    UNION {{<<x[1], x[2], a>> : a \in DOMAIN GroupOf(x[1], x[2])} :
              x \in (DOMAIN projects) \X Groups}

AppAt(e) == GroupOf(e[1], e[2])[e[3]]

Ineligible(app) == app.Status # "done" \/ app.Domains = <<>>

\* the places <<project, group, entry, domain>> of the bindings of the eligible
\* entries
EligibleBindings ==
    UNION {{<<e[1], e[2], e[3], d>> : d \in DOMAIN AppAt(e).Domains} :
              e \in {x \in EntryPlaces : ~Ineligible(AppAt(x))}}

DomainAt(b) == AppAt(b).Domains[b[4]]

Place(ev) == <<ev.p, ev.group, ev.a>>

BindingPlace(ev) == <<ev.p, ev.group, ev.a, ev.d>>

Range(seq) == {seq[i] : i \in DOMAIN seq}

\* the counters of the pass: those reported once it has ended
PassProcessed == IF report.result = "none" THEN processed ELSE report.processed

PassSkipped == IF report.result = "none" THEN skipped ELSE report.skipped

PassErrors == IF report.result = "none" THEN errors ELSE report.errors

InPass == pc \in {"loop", "attempt"}

WebA == <<"w","e","b","-","a","-","i","o">>

----------------------------------------------------------------------------
\* C1: with ForceSync false no resource name is published twice in one process
\* lifetime: no name has seen more than one 2xx, and a createBlueprint call is
\* never made for a name that processedApps already holds, whatever the port,
\* path or TLS flag of the binding now are.
C1_PublishedAtMostOnce ==
    ~config.ForceSync =>
        /\ \A n \in DOMAIN published : published[n] <= 1
        /\ DOMAIN published = processedApps
        /\ pc = "attempt" => blueprint.ProxyResources[1].Name \notin processedApps

\* a second pass meets web/a.io, published by an earlier pass, with another
\* port, path and TLS flag, and passes it by
C1_Witness ==
    /\ ~config.ForceSync
    /\ passCount = 2
    /\ projects = InvDrift
    /\ WebA \in ledgerAtStart
    /\ published[WebA] = 1
    /\ \E i \in DOMAIN trace :
          /\ trace[i].result = "already"
          /\ DomainAt(BindingPlace(trace[i])) = Domain(HostA, "/v2", 9090, TRUE)

----------------------------------------------------------------------------
\* C2: in a pass whose fetch succeeded every binding of every eligible entry,
\* of both groups of every project, is handled exactly once whatever became
\* of the bindings before it; at the end of the pass processed + errors is
\* the number of those bindings and errors the number of them for which
\* processAppDomain returned an error.
C2_PartialFailureIsolation ==
    /\ (InPass \/ report.result = "completed") =>
          /\ \A ev \in Range(BindingEvents) : BindingPlace(ev) \in EligibleBindings
          /\ \A i, j \in DOMAIN BindingEvents :
                BindingPlace(BindingEvents[i]) = BindingPlace(BindingEvents[j]) => i = j
    /\ report.result = "completed" =>
          /\ {BindingPlace(ev) : ev \in Range(BindingEvents)} = EligibleBindings
          /\ report.processed + report.errors = Cardinality(EligibleBindings)
          /\ report.errors =
                Cardinality({i \in DOMAIN BindingEvents :
                                BindingEvents[i].result \in ErrorResults})

\* one binding without a host, then two that are published
C2_Witness ==
    /\ report.result = "completed"
    /\ projects = InvExample
    /\ [i \in DOMAIN trace |-> trace[i].result] = <<"empty-host", "published", "published">>
    /\ report.processed = 2
    /\ report.skipped = 0
    /\ report.errors = 1

----------------------------------------------------------------------------
\* C3: an entry that is not "done" or has no domain binding adds exactly one
\* to skipped and never reaches processAppDomain: nothing is derived or
\* submitted for it and the ledger is as it was.
C3_NoBindingOfIneligible ==
    /\ \A ev \in Range(BindingEvents) : ~Ineligible(AppAt(Place(ev)))
    /\ pc = "attempt" => ~Ineligible(Entries(projects)[ei].app)
    /\ (InPass \/ report.result = "completed") =>
          PassSkipped = Cardinality({i \in DOMAIN trace : trace[i].kind = "entry"})

C3_SkipStep ==
    (pc = "loop" /\ Ineligible(Entries(projects)[ei].app)) =>
        /\ processedApps' = processedApps
        /\ published' = published
        /\ blueprint' = blueprint
        /\ calls' = calls
        /\ posts' = posts
        /\ pc' # "attempt"
        /\ \/ trace' = trace /\ pc' = pc /\ skipped' = skipped
           \/ /\ trace' = Append(trace, [kind |-> "entry",
                                         p |-> Entries(projects)[ei].p,
                                         group |-> Entries(projects)[ei].group,
                                         a |-> Entries(projects)[ei].a,
                                         d |-> 0, result |-> "skipped"])
              /\ PassSkipped' = skipped + 1
              /\ PassProcessed' = processed
              /\ PassErrors' = errors

C3_EligibilityFilter == []C3_NoBindingOfIneligible /\ [][C3_SkipStep]_vars

\* a pass over an entry that is not running and one without domains
C3_Witness ==
    /\ report.result = "completed"
    /\ projects = InvDrift
    /\ report.skipped = 2
    /\ \E i, j \in DOMAIN trace :
          /\ trace[i].kind = "entry" /\ AppAt(Place(trace[i])).Status = "idle"
          /\ trace[j].kind = "entry" /\ AppAt(Place(trace[j])).Domains = <<>>

----------------------------------------------------------------------------
\* C4: against a target that fails every attempt createBlueprint is called
\* exactly RetryAttempts times for the binding, whatever the failures are
\* (transport error, 3xx, 4xx, 5xx), and the binding is then counted as errored.
C4_RetryCeiling ==
    /\ pc = "attempt" => calls = attempt - 1 /\ attempt <= config.RetryAttempts
    /\ (pc # "attempt" /\ trace # <<>> /\ Last(trace).result = "publish-failed") =>
          /\ calls = config.RetryAttempts
          /\ PassErrors = Cardinality({i \in DOMAIN trace :
                                          trace[i].result \in ErrorResults})
          /\ PassErrors >= 1

\* two attempts with one delay between them, two failures, one errored binding
C4_Witness ==
    /\ config.RetryAttempts = 2
    /\ pc # "attempt"
    /\ trace # <<>>
    /\ Last(trace).result = "publish-failed"
    /\ calls = 2
    /\ sleeps = 1
    /\ PassErrors = 1

----------------------------------------------------------------------------
\* C5: when every candidate endpoint has failed syncApps returns an error and
\* the pass does nothing else: no entry is filtered, nothing is derived or
\* POSTed, and processedApps is what it was when the pass started.
AllCandidatesFailed ==
    /\ pc = "fetched"
    /\ Len(tried) = 4
    /\ lastResp.err \/ lastResp.status # 200 \/ ~lastResp.json

C5_NothingDoneWhileFetching ==
    (pc \in {"fetch", "fetched"} \/ report.result = "failed") =>
        /\ trace = <<>>
        /\ processedApps = ledgerAtStart
        /\ calls = 0
        /\ posts = 0
        /\ blueprint = NoBlueprint

C5_AbortStep ==
    AllCandidatesFailed =>
        \/ pc' = pc
        \/ /\ report'.result = "failed"
           /\ report'.processed = 0 /\ report'.skipped = 0 /\ report'.errors = 0
           /\ pc' \in {"select", "exit"}
           /\ processedApps' = ledgerAtStart
           /\ published' = published

C5_FetchFailureAborts == []C5_NothingDoneWhileFetching /\ [][C5_AbortStep]_vars

\* a second pass fails to fetch and leaves the ledger of the first as it was
C5_Witness ==
    /\ report.result = "failed"
    /\ passCount = 2
    /\ processedApps # {}
    /\ processedApps = ledgerAtStart
    /\ trace = <<>>

----------------------------------------------------------------------------
\* C6: the candidates are requested in the order /api/projects,
\* /api/project/all, /api/project, /api/applications; a candidate is requested
\* only after the one before it failed (transport error, status other than
\* 200, or a 200 whose body does not decode); the first decodable 200 is the
\* result and no candidate is requested after it.
CandidateOrder ==
    <<"/api/projects", "/api/project/all", "/api/project", "/api/applications">>

Failed(resp) == resp.err \/ resp.status # 200 \/ ~resp.json

C6_RequestsInOrder ==
    /\ Len(tried) <= Len(CandidateOrder)
    /\ tried = SubSeq(CandidateOrder, 1, Len(tried))
    /\ (pc = "fetch" /\ tried # <<>>) => Failed(lastResp)
    /\ pc = "fetched" =>
          /\ tried # <<>>
          /\ IF Failed(lastResp)
             THEN Len(tried) = Len(CandidateOrder) /\ lastErr # NoErr /\ projects = <<>>
             ELSE lastErr = NoErr /\ projects = lastResp.body

C6_RequestStep ==
    /\ (Len(tried') > Len(tried) /\ tried # <<>>) => Failed(lastResp)
    /\ (tried # <<>> /\ ~Failed(lastResp)) => (tried' = tried \/ tried' = <<>>)

C6_EndpointFallback == []C6_RequestsInOrder /\ [][C6_RequestStep]_vars

\* the first candidate failed, the second answered a decodable 200: its
\* inventory is the result and the third is not requested
C6_Witness ==
    /\ pc = "fetched"
    /\ tried = <<"/api/projects", "/api/project/all">>
    /\ lastResp = Response(200, TRUE, InvDrift)
    /\ lastErr = NoErr
    /\ projects = InvDrift

----------------------------------------------------------------------------
\* C7: with ForceSync true, in a pass whose fetch succeeded every binding with
\* a host of every eligible entry is submitted to the target again, whatever
\* processedApps holds.
Submitted == {"published", "publish-failed"}

C7_ForceSyncRepublishes ==
    config.ForceSync =>
        /\ \A ev \in Range(BindingEvents) :
              DomainAt(BindingPlace(ev)).Host # <<>> => ev.result \in Submitted
        /\ report.result = "completed" =>
              \A b \in EligibleBindings :
                  DomainAt(b).Host # <<>> =>
                      \E ev \in Range(BindingEvents) :
                          BindingPlace(ev) = b /\ ev.result \in Submitted
        /\ (pc # "attempt" /\ trace # <<>> /\ Last(trace).result \in Submitted) =>
              calls >= 1 /\ posts >= 1

\* a second pass publishes web/a.io, which the ledger held when the pass began
C7_Witness ==
    /\ config.ForceSync
    /\ passCount = 2
    /\ report.result = "completed"
    /\ WebA \in ledgerAtStart
    /\ published[WebA] = 2
    /\ \E ev \in Range(BindingEvents) :
          /\ ev.result = "published"
          /\ DomainAt(BindingPlace(ev)).Host = HostA

----------------------------------------------------------------------------
\* C8: resolveTargetPort is the port of the domain when that is positive, else
\* the port of the application when that is positive, else 443 for an HTTPS
\* domain and 80 otherwise.
C8_PortResolution ==
    fnOut.done =>
        /\ fnIn.domainPort > 0 => fnOut.value = fnIn.domainPort
        /\ (fnIn.domainPort <= 0 /\ fnIn.appPort > 0) => fnOut.value = fnIn.appPort
        /\ (fnIn.domainPort <= 0 /\ fnIn.appPort <= 0 /\ fnIn.https) => fnOut.value = 443
        /\ (fnIn.domainPort <= 0 /\ fnIn.appPort <= 0 /\ ~fnIn.https) => fnOut.value = 80

\* neither port is set and the domain is HTTPS: 443
C8_Witness ==
    /\ fnOut.done
    /\ fnIn = [domainPort |-> 0, appPort |-> 0, https |-> TRUE]
    /\ fnOut.value = 443

----------------------------------------------------------------------------
\* C9: generateResourceName(appName, host) is the first 63 characters of
\* lowercase(appName + "-" + host) with every '.' and '_' replaced by '-'; it
\* is never longer than 63 characters, is exactly 63 characters long when the
\* untruncated string is longer, holds no '.', no '_' and no upper-case
\* letter, and is the key put into processedApps.
NormalisedChar(c) == IF c \in {".", "_"} THEN "-" ELSE ToLowerRune(c)

Normalised(appName, host) ==
    LET full == appName \o <<"-">> \o host
    IN  [i \in DOMAIN full |-> NormalisedChar(full[i])]

FirstCharacters(s, n) == SubSeq(s, 1, IF Len(s) < n THEN Len(s) ELSE n)

ClaimedName(appName, host) == FirstCharacters(Normalised(appName, host), 63)

WellFormedName(name) ==
    /\ Len(name) <= 63
    /\ \A i \in DOMAIN name :
          /\ name[i] \notin {".", "_"}
          /\ name[i] \notin Range(UpperCase)

C9_NamingRule ==
    /\ pc = "attempt" =>
          LET app == Entries(projects)[ei].app
              host == app.Domains[di].Host
              name == blueprint.ProxyResources[1].Name
          IN  /\ name = ClaimedName(app.Name, host)
              /\ WellFormedName(name)
              /\ Len(Normalised(app.Name, host)) > 63 => Len(name) = 63
    /\ \A key \in processedApps \ ledgerAtStart :
          \E b \in EligibleBindings :
              key = ClaimedName(AppAt(b).Name, DomainAt(b).Host)

\* the same statement for the inventories whose names are one byte a character
C9_NamingRuleOneByte ==
    (\A b \in EligibleBindings :
        \A i \in DOMAIN AppAt(b).Name : AppAt(b).Name[i] \notin TwoByte)
    => C9_NamingRule

----------------------------------------------------------------------------
\* C10: in continuous mode, the configuration accepted, Run makes one pass at
\* once and one pass for every tick it takes; no pass, failed or with errored
\* bindings, ends the loop, and Run returns only once the context has been
\* cancelled.
InSync == pc \in {"fetch", "fetched", "loop", "attempt"}

C10_LoopState ==
    (~config.RunOnce /\ validateConfig(config) = "nil") =>
        /\ pc \notin {"main", "run"} => passCount = 1 + ticksTaken
        /\ pc = "select" => report.result \in {"completed", "failed"}
        /\ pc = "exit" => ctxDone /\ exitCode = 0

C10_LoopStep ==
    (~config.RunOnce /\ validateConfig(config) = "nil") =>
        /\ (InSync /\ ~InSync') => pc' = "select"
        /\ (pc # "exit" /\ pc' = "exit") => pc = "select" /\ ctxDone
        /\ passCount' # passCount =>
              /\ passCount' = passCount + 1
              /\ pc = "run" \/ (pc = "select" /\ tickPending /\ ~tickPending')

C10_ContinuousMode == []C10_LoopState /\ [][C10_LoopStep]_vars

\* the initial pass has failed and Run is at its select, the context not
\* cancelled, with a tick to take
C10_Witness ==
    /\ ~config.RunOnce
    /\ ~ctxDone
    /\ pc = "select"
    /\ passCount = 1
    /\ report.result = "failed"
    /\ tickPending

----------------------------------------------------------------------------
\* C11: once the context has been cancelled Run starts no further pass, also
\* when a tick is pending at the same moment, and also not the initial pass.
C11_NoPassOnceCancelled == [][ctxDone => passCount' = passCount]_vars

----------------------------------------------------------------------------
\* C12: a cancellation raised while a pass runs does not interrupt it: the
\* signal changes nothing of the pass, the pass goes through every remaining
\* entry and binding with the whole retry sequence up to its report, and Run
\* returns only from its select after that report.
C12_PassRunsToItsEnd ==
    cancelledMidPass =>
        /\ ctxDone
        /\ report.result = "completed" =>
              /\ {BindingPlace(ev) : ev \in Range(BindingEvents)} = EligibleBindings
              /\ {Place(ev) : ev \in {x \in Range(trace) : x.kind = "entry"}}
                    = {e \in EntryPlaces : Ineligible(AppAt(e))}
              /\ report.processed + report.errors = Cardinality(EligibleBindings)
        /\ (pc # "attempt" /\ trace # <<>> /\ Last(trace).result = "publish-failed") =>
              calls = config.RetryAttempts
        /\ pc = "exit" => report.result \in {"completed", "failed"} /\ exitCode = 0

C12_CancelStep ==
    /\ (~ctxDone /\ ctxDone') =>
          /\ pc' = pc
          /\ <<ei, di, attempt, blueprint, endpointIdx, projects>>'
                = <<ei, di, attempt, blueprint, endpointIdx, projects>>
          /\ <<processed, skipped, errors, trace, calls, posts, report>>'
                = <<processed, skipped, errors, trace, calls, posts, report>>
          /\ processedApps' = processedApps
    /\ (ctxDone /\ InSync /\ ~InSync') =>
          pc' = "select" /\ report'.result \in {"completed", "failed"}
    /\ (ctxDone /\ pc # "exit" /\ pc' = "exit") => pc = "select"

C12_NoMidPassAbort == []C12_PassRunsToItsEnd /\ [][C12_CancelStep]_vars

\* cancelled during the only pass, which went on over all three bindings of
\* the example, one of them errored; Run has returned after its report
C12_Witness ==
    /\ cancelledMidPass
    /\ pc = "exit"
    /\ passCount = 1
    /\ projects = InvExample
    /\ report = [result |-> "completed", processed |-> 2, skipped |-> 0,
                 errors |-> 1, err |-> NoErr]

----------------------------------------------------------------------------
\* C13: with RunOnce set and the configuration accepted exactly one syncApps
\* call is made and the process ends after it; Run, its ticker and its select
\* are never entered, and the configuration never changes while the process
\* runs.
C13_OnePassOnly ==
    (config.RunOnce /\ validateConfig(config) = "nil") =>
        /\ pc \in {"main", "fetch", "fetched", "loop", "attempt", "exit"}
        /\ passCount = (IF pc = "main" THEN 0 ELSE 1)
        /\ ~tickPending
        /\ ticksTaken = 0
        /\ pc = "exit" =>
              /\ report.result \in {"completed", "failed"}
              /\ exitCode = (IF report.result = "failed" THEN 1 ELSE 0)

C13_ModeStep ==
    /\ config' = config
    /\ (config.RunOnce /\ InSync /\ ~InSync') => pc' = "exit"
    /\ pc = "exit" => pc' = "exit" /\ passCount' = passCount

C13_SinglePassMode == []C13_OnePassOnly /\ [][C13_ModeStep]_vars

\* the one pass over the example is done and the process has ended
C13_Witness ==
    /\ config.RunOnce
    /\ pc = "exit"
    /\ passCount = 1
    /\ exitCode = 0
    /\ projects = InvExample
    /\ report = [result |-> "completed", processed |-> 2, skipped |-> 0,
                 errors |-> 1, err |-> NoErr]

----------------------------------------------------------------------------
\* C14: every binding with an empty host of an eligible entry is rejected with
\* an error before a declaration is built or submitted and is counted as
\* errored, whatever processedApps holds and whatever ForceSync is.
C14_EmptyHostRejected ==
    /\ \A ev \in Range(BindingEvents) :
          DomainAt(BindingPlace(ev)).Host = <<>> => ev.result = "empty-host"
    /\ pc = "attempt" => Entries(projects)[ei].app.Domains[di].Host # <<>>
    /\ report.result = "completed" =>
          report.errors >= Cardinality({b \in EligibleBindings : DomainAt(b).Host = <<>>})

\* the same with the ledger check switched off
C14_EmptyHostRejectedForceSync == config.ForceSync => C14_EmptyHostRejected

----------------------------------------------------------------------------
\* C15: when two bindings map to the same resource name, the declaration of
\* the one processed later is submitted under that name, and the declaration
\* the target accepted last for the name is that of the last of them.
GroupIn(inv, p, g) == IF g = "Applications" THEN inv[p].Applications ELSE inv[p].Compose

BindingsIn(inv) ==
    UNION {UNION {{<<x[1], x[2], a, d>> : d \in DOMAIN GroupIn(inv, x[1], x[2])[a].Domains} :
                     a \in DOMAIN GroupIn(inv, x[1], x[2])} :
              x \in (DOMAIN inv) \X Groups}

\* the resource name of every binding of every inventory
NameTable ==
    [inv \in Inventories |->
        [b \in BindingsIn(inv) |->
            generateResourceName(GroupIn(inv, b[1], b[2])[b[3]].Name,
                                 GroupIn(inv, b[1], b[2])[b[3]].Domains[b[4]].Host)]]

NameAt(b) == NameTable[projects][b]

DeclarationAt(b) ==
    Blueprint(NameAt(b), AppAt(b), DomainAt(b), resolveTargetPort(AppAt(b), DomainAt(b)))

\* binding event j comes after binding event i, for another binding with a
\* host and the same name
Collide(i, j) ==
    /\ i < j
    /\ NameAt(BindingPlace(BindingEvents[i])) = NameAt(BindingPlace(BindingEvents[j]))
    /\ DomainAt(BindingPlace(BindingEvents[i])).Host # <<>>
    /\ DomainAt(BindingPlace(BindingEvents[j])).Host # <<>>

\* the last binding event for the name of event i
LastOfName(i) ==
    ~\E j \in DOMAIN BindingEvents : Collide(i, j)

C15_LastWriteWins ==
    report.result = "completed" =>
        \A i, j \in DOMAIN BindingEvents :
            (Collide(i, j) /\ LastOfName(j)) =>
                /\ BindingEvents[j].result \in Submitted
                /\ NameAt(BindingPlace(BindingEvents[j])) \in DOMAIN target =>
                      target[NameAt(BindingPlace(BindingEvents[j]))]
                          = DeclarationAt(BindingPlace(BindingEvents[j]))

\* C15 as amended: bindings that map to one name share one ledger entry and
\* one resource of the target.  With ForceSync false only the first of them to
\* get a 2xx is accepted and the later ones are passed over without a request;
\* with ForceSync true each of them is submitted; in both cases the declaration
\* the target accepted last is that of the last of them that got a 2xx.
C15_LastAcceptedWins ==
    /\ DOMAIN target = processedApps
    /\ \A n \in DOMAIN target : target[n].ProxyResources[1].Name = n
    /\ (InPass \/ report.result = "completed") =>
          LET evs == BindingEvents
              name == [i \in DOMAIN evs |-> NameAt(BindingPlace(evs[i]))]
              accepted == {i \in DOMAIN evs : evs[i].result = "published"}
          IN  \A i \in DOMAIN evs :
                  /\ (i \in accepted
                        /\ \A k \in accepted : name[k] = name[i] => k <= i) =>
                        target[name[i]] = DeclarationAt(BindingPlace(evs[i]))
                  /\ (~config.ForceSync /\ i \in accepted) =>
                        \A j \in DOMAIN evs :
                            (j > i /\ name[j] = name[i]) => evs[j].result = "already"
                  /\ (config.ForceSync /\ DomainAt(BindingPlace(evs[i])).Host # <<>>) =>
                        evs[i].result \in Submitted

\* two bindings cut to the same 63 bytes: the first is accepted, the second is
\* passed over, and the target holds the declaration of the first
C15_Witness ==
    /\ ~config.ForceSync
    /\ report.result = "completed"
    /\ projects = InvLong
    /\ Len(BindingEvents) = 3
    /\ Collide(1, 2)
    /\ BindingEvents[1].result = "published"
    /\ BindingEvents[2].result = "already"
    /\ target[NameAt(BindingPlace(BindingEvents[1]))]
          = DeclarationAt(BindingPlace(BindingEvents[1]))
    /\ DeclarationAt(BindingPlace(BindingEvents[1]))
          # DeclarationAt(BindingPlace(BindingEvents[2]))

----------------------------------------------------------------------------
\* C16: processedApps is empty when the process starts; a name is in it only
\* if a createBlueprint call of this process for a declaration of that name
\* was answered with a 2xx; a derivation error or an exhausted retry sequence
\* leaves it as it is; nothing is ever taken out of it.
C16_LedgerState ==
    /\ pc = "main" => processedApps = {}
    /\ \A n \in processedApps : n \in DOMAIN published /\ published[n] >= 1
    /\ \A n \in processedApps : n \in DOMAIN target /\ target[n].ProxyResources[1].Name = n

C16_LedgerStep ==
    /\ processedApps \subseteq processedApps'
    /\ processedApps' # processedApps =>
          /\ pc = "attempt"
          /\ processedApps' = processedApps \cup {blueprint.ProxyResources[1].Name}
          /\ target'[blueprint.ProxyResources[1].Name] = blueprint
          /\ Last(trace').result = "published"
    /\ (trace' # trace /\ trace' # <<>> /\ Last(trace').result \in ErrorResults) =>
          processedApps' = processedApps

C16_LedgerInvariant == []C16_LedgerState /\ [][C16_LedgerStep]_vars

\* an empty host, a 2xx and an exhausted retry sequence: only the name that
\* got the 2xx is in the ledger
C16_Witness ==
    /\ report.result = "completed"
    /\ projects = InvExample
    /\ ledgerAtStart = {}
    /\ [i \in DOMAIN trace |-> trace[i].result]
          = <<"empty-host", "published", "publish-failed">>
    /\ processedApps = {WebA}
    /\ published[WebA] = 1

----------------------------------------------------------------------------
\* C17: the port of every forwarding target of every declaration submitted
\* to the target system is in 1..65535, whatever the port of the domain, the
\* port of the application and the TLS flag in the inventory are.
C17_PortInRange ==
    pc = "attempt" =>
        \A r \in Range(blueprint.ProxyResources) :
            \A t \in Range(r.Targets) : t.Port \in 1..65535

\* the same for the inventories whose ports are at most 65535
C17_PortInRangeOfSmallPorts ==
    (\A b \in EligibleBindings : DomainAt(b).Port <= 65535 /\ AppAt(b).Port <= 65535)
    => C17_PortInRange

----------------------------------------------------------------------------
\* C18: when a required URL is empty, no target credential is set, the poll
\* interval is below 5 s or RetryAttempts is outside 1..10, validateConfig
\* fails and no pass is ever run; a configuration that only lacks the source
\* credentials is accepted and the engine runs.
LacksUrlCredentialOrRetries(c) ==
    \/ c.DokployURL = ""
    \/ c.PangolinURL = ""
    \/ (c.PangolinToken = "" /\ c.PangolinAPIKey = "")
    \/ c.RetryAttempts \notin 1..10

NeverRuns == passCount = 0 /\ pc \in {"main", "exit"} /\ (pc = "exit" => exitCode = 1)

Runs == pc # "main" => (passCount >= 1 \/ pc = "run")

C18_ConfigErrorsFatal ==
    IF LacksUrlCredentialOrRetries(config) \/ config.PollInterval < 5
    THEN NeverRuns
    ELSE Runs

\* C18 as amended: the poll interval counts only in continuous mode (RunOnce
\* false); in single-pass mode an interval below 5 s is accepted.
C18_ConfigErrorsFatalIntervalInDaemonMode ==
    IF \/ LacksUrlCredentialOrRetries(config)
       \/ (~config.RunOnce /\ config.PollInterval < 5)
    THEN NeverRuns
    ELSE Runs

\* continuous mode with an interval of 4 s and nothing else wrong: the process
\* has ended with status 1 and without a pass
C18_Witness ==
    /\ config = [DefaultConfig EXCEPT !.PollInterval = 4]
    /\ pc = "exit"
    /\ exitCode = 1
    /\ passCount = 0

\* without source credentials the engine runs
C18_RunsWithoutSourceCredentials ==
    /\ config = [DefaultConfig EXCEPT !.RunOnce = TRUE, !.DokployAPIKey = ""]
    /\ report.result = "completed"
    /\ pc = "exit"

----------------------------------------------------------------------------
\* C19: the only requests the engine sends to the source are GETs of the four
\* candidate inventory endpoints, and the only request it sends that is not a
\* GET is the POST of a declaration to /v1/blueprints of the target.
C19_ReadOnlyTowardsSource ==
    \A r \in sent :
        /\ r.system \in {"source", "target"}
        /\ r.system = "source" =>
              r.method = "GET" /\ r.path \in Range(CandidateOrder)
        /\ r.method # "GET" =>
              r = [system |-> "target", method |-> "POST", path |-> "/v1/blueprints"]

C19_RequestStep ==
    sent' # sent =>
        /\ (\E r \in sent' : r.method # "GET") => pc = "attempt" /\ blueprint # NoBlueprint
        /\ (\E r \in sent' : r.system = "source") => pc \in {"run", "fetch"}

C19_ReadOnly == []C19_ReadOnlyTowardsSource /\ [][C19_RequestStep]_vars

\* a pass has read the inventory and has just POSTed a declaration
C19_Witness ==
    /\ sent = {[system |-> "target", method |-> "POST", path |-> "/v1/blueprints"]}
    /\ projects = InvExample
    /\ Len(trace) = 2
    /\ Last(trace).result = "published"

----------------------------------------------------------------------------
\* C20: when every candidate endpoint failed, the error getDokployProjects
\* returns wraps the failure of the fourth candidate, the last one tried, and
\* nothing of the earlier ones; no inventory is returned.
FailureOf(endpoint, resp) ==
    [endpoint |-> endpoint,
     kind |-> IF resp.err THEN "transport"
              ELSE IF resp.status # 200 THEN "status" ELSE "decode",
     status |-> IF resp.err THEN 0 ELSE resp.status]

C20_LastFailureWrapped ==
    /\ (pc = "fetched" /\ Failed(lastResp)) =>
          /\ Len(tried) = 4
          /\ lastErr = FailureOf("/api/applications", lastResp)
          /\ projects = <<>>
    /\ report.result = "failed" =>
          /\ report.err.endpoint = "/api/applications"
          /\ report.err.kind \in {"transport", "status", "decode"}
          /\ projects = <<>>

C20_ErrorStep ==
    (pc = "fetched" /\ report'.result = "failed") => report'.err = lastErr

C20_LastErrorReturned == []C20_LastFailureWrapped /\ [][C20_ErrorStep]_vars

\* the fourth candidate answered 404 after other kinds of failure: the error
\* is the 404 of /api/applications
C20_Witness ==
    /\ pc = "fetched"
    /\ Len(tried) = 4
    /\ lastResp = Response(404, FALSE, NoBody)
    /\ lastErr = [endpoint |-> "/api/applications", kind |-> "status", status |-> 404]

----------------------------------------------------------------------------
\* C21: every declaration processAppDomain submits holds exactly one proxy
\* resource with exactly one target: the resource has the derived name,
\* protocol "http", the host of the binding as full domain, the TLS flag of the
\* binding as SSL, and is enabled; the target has the AppName of the entry as
\* hostname, method "https" exactly when the TLS flag of the binding is set,
\* whatever the port, and as path the path of the binding when that is neither
\* empty nor "/", else "/".
DeclarationOf(app, domain, doc) ==
    /\ DOMAIN doc = {"ProxyResources"}
    /\ Len(doc.ProxyResources) = 1
    /\ LET r == doc.ProxyResources[1]
       IN  /\ r.Name = generateResourceName(app.Name, domain.Host)
           /\ r.Protocol = "http"
           /\ r.FullDomain = domain.Host
           /\ r.SSL = domain.HTTPS
           /\ r.Enabled
           /\ Len(r.Targets) = 1
           /\ r.Targets[1].Hostname = app.AppName
           /\ r.Targets[1].Enabled
           /\ r.Targets[1].Method = "https" <=> domain.HTTPS
           /\ r.Targets[1].Method = "http" <=> ~domain.HTTPS
           /\ r.Targets[1].Path = (IF domain.Path \in {"", "/"} THEN "/" ELSE domain.Path)

C21_DeclarationShape ==
    /\ pc = "attempt" =>
          DeclarationOf(Entries(projects)[ei].app, Entries(projects)[ei].app.Domains[di],
                        blueprint)
    /\ \A n \in DOMAIN target :
          /\ Len(target[n].ProxyResources) = 1
          /\ Len(target[n].ProxyResources[1].Targets) = 1
          /\ target[n].ProxyResources[1].Protocol = "http"
          /\ target[n].ProxyResources[1].Targets[1].Method = "https"
                <=> target[n].ProxyResources[1].SSL

\* the TLS binding of MyApp with an empty path and no port: the declaration
\* under submission forwards over https to myapp-x4:443 at "/"
C21_Witness ==
    /\ pc = "attempt"
    /\ projects = InvDrift
    /\ Entries(projects)[ei].app.Name = MyApp
    /\ blueprint.ProxyResources[1].FullDomain = HostExample
    /\ blueprint.ProxyResources[1].SSL
    /\ blueprint.ProxyResources[1].Targets
          = <<[Hostname |-> "myapp-x4", Port |-> 443, Method |-> "https",
               Enabled |-> TRUE, Path |-> "/"]>>

\* a TLS binding whose port is not 443: https to web-x1:8080 at "/api"
C21_WitnessOtherPort ==
    /\ pc = "attempt"
    /\ projects = InvExample
    /\ blueprint.ProxyResources[1].Targets
          = <<[Hostname |-> "web-x1", Port |-> 8080, Method |-> "https",
               Enabled |-> TRUE, Path |-> "/api"]>>

----------------------------------------------------------------------------
\* C22: the "no port available" failure cannot happen: for every entry and
\* binding, also with a port of zero or below, resolveTargetPort returns a
\* value of at least 1, so processAppDomain never returns the no-port error
\* and no binding is counted as errored for it.
C22_NoPortUnreachable ==
    /\ \A ev \in Range(trace) : ev.result # "no-port"
    /\ \A b \in EligibleBindings : resolveTargetPort(AppAt(b), DomainAt(b)) >= 1
    /\ pc = "attempt" => blueprint.ProxyResources[1].Targets[1].Port >= 1
    /\ (InPass \/ report.result = "completed") =>
          PassErrors = Cardinality({i \in DOMAIN trace :
                                      trace[i].result \in {"empty-host", "publish-failed"}})

\* the same for the function on its own, over the grid of ports
C22_PortPositive == fnOut.done => fnOut.value >= 1

\* the TLS binding x/y_ has no port and its entry the port -5: the declaration
\* under submission forwards to the default port 443
C22_Witness ==
    /\ pc = "attempt"
    /\ projects = InvCollide
    /\ Entries(projects)[ei].app.Port = -5
    /\ Entries(projects)[ei].app.Domains[di].Port = 0
    /\ blueprint.ProxyResources[1].Targets[1].Port = 443

\* the function on its own: a negative port of the domain and none of the
\* application, no TLS
C22_WitnessNegative ==
    /\ fnOut.done
    /\ fnIn = [domainPort |-> -1, appPort |-> 0, https |-> FALSE]
    /\ fnOut.value = 80

----------------------------------------------------------------------------
\* C23: for one binding in one pass the target is sent at most RetryAttempts
\* POST requests, one for each attempt of the retry loop, whatever mix of
\* transport errors and non-2xx answers there is; the HTTP client sends
\* nothing again on its own.
C23_PostCeiling ==
    validateConfig(config) = "nil" =>
        /\ posts <= config.RetryAttempts
        /\ posts <= calls

\* the same ceiling for the calls of createBlueprint
C23_CallCeiling == validateConfig(config) = "nil" => calls <= config.RetryAttempts

----------------------------------------------------------------------------
\* C24: createBlueprintWithRetry stops at the first attempt answered with a
\* 2xx and makes no further attempt for the binding in the pass; the retry
\* delay is waited only between two attempts (after a failed attempt k <
\* RetryAttempts), never after a success and never after the last failed
\* attempt.
C24_DelaysBetweenAttempts ==
    /\ pc = "attempt" => calls = attempt - 1 /\ sleeps = calls
    /\ (pc # "attempt" /\ trace # <<>> /\ Last(trace).result \in Submitted) =>
          /\ calls \in 1..config.RetryAttempts
          /\ sleeps = calls - 1
          /\ Last(trace).result = "publish-failed" => calls = config.RetryAttempts

C24_AttemptStep ==
    calls' = calls + 1 =>
        /\ pc = "attempt"
        /\ answer' \in {"2xx", "other"}
        /\ answer' = "2xx" =>
              /\ pc' # "attempt"
              /\ attempt' = 0
              /\ sleeps' = sleeps
              /\ trace' = Append(trace, [Last(trace') EXCEPT !.result = "published"])
        /\ (answer' = "other" /\ attempt < config.RetryAttempts) =>
              /\ pc' = "attempt"
              /\ attempt' = attempt + 1
              /\ sleeps' = sleeps + 1
              /\ trace' = trace
        /\ (answer' = "other" /\ attempt >= config.RetryAttempts) =>
              /\ pc' # "attempt"
              /\ sleeps' = sleeps
              /\ trace' = Append(trace, [Last(trace') EXCEPT !.result = "publish-failed"])

C24_StopAtFirstSuccess == []C24_DelaysBetweenAttempts /\ [][C24_AttemptStep]_vars

\* the first attempt failed, the delay was waited once, the second attempt was
\* answered 204 and ended the sequence with an attempt to spare
C24_Witness ==
    /\ config.RetryAttempts = 2
    /\ answer = "2xx"
    /\ pc # "attempt"
    /\ Last(trace).result = "published"
    /\ calls = 2
    /\ sleeps = 1

----------------------------------------------------------------------------
\* C25: with ForceSync false, for a binding whose resource name is in
\* processedApps, processAppDomain returns success without validating the
\* host, deriving a declaration or contacting the target; syncApps counts the
\* binding as processed, not as skipped or errored, and processedApps stays
\* as it is.
AtBindingInLedger ==
    /\ pc = "loop"
    /\ ~config.ForceSync
    /\ Entries(projects)[ei].app.Status = "done"
    /\ Entries(projects)[ei].app.Domains # <<>>
    /\ generateResourceName(Entries(projects)[ei].app.Name,
                            Entries(projects)[ei].app.Domains[di].Host) \in processedApps

C25_LedgerHitStep ==
    AtBindingInLedger =>
        \/ pc' = pc /\ trace' = trace /\ ei' = ei /\ di' = di
        \/ /\ trace' = Append(trace, [kind |-> "binding",
                                      p |-> Entries(projects)[ei].p,
                                      group |-> Entries(projects)[ei].group,
                                      a |-> Entries(projects)[ei].a,
                                      d |-> di, result |-> "already"])
           /\ PassProcessed' = processed + 1
           /\ PassSkipped' = skipped
           /\ PassErrors' = errors
           /\ processedApps' = processedApps
           /\ target' = target
           /\ published' = published
           /\ blueprint' = NoBlueprint
           /\ pc' # "attempt"
           /\ sent' = {}
           /\ calls' = 0 /\ posts' = 0

C25_LedgerHitState ==
    (~config.ForceSync /\ (InPass \/ report.result = "completed")) =>
        PassProcessed = Cardinality({i \in DOMAIN trace :
                                        trace[i].result \in {"already", "published"}})

C25_LedgerHitIsSuccess == []C25_LedgerHitState /\ [][C25_LedgerHitStep]_vars

\* the binding without a host of x_y, whose name x-y- the ledger holds, has
\* been passed over: three bindings processed, none errored
C25_Witness ==
    /\ ~config.ForceSync
    /\ projects = InvCollide
    /\ report = [result |-> "completed", processed |-> 3, skipped |-> 0,
                 errors |-> 0, err |-> NoErr]
    /\ [i \in DOMAIN trace |-> trace[i].result] = <<"published", "already", "already">>
    /\ DomainAt(BindingPlace(trace[3])).Host = <<>>
    /\ processedApps = {<<"x", "-", "y", "-">>}

----------------------------------------------------------------------------
\* C26: syncApps returns an error if and only if the fetch of the inventory
\* failed.  A pass in which some or all bindings were counted as errored
\* returns success: in single-pass mode the process ends with status 0, in
\* continuous mode Run sees no failed pass.
C26_ResultState ==
    /\ report.result = "failed" => report.err # NoErr /\ report.errors = 0 /\ trace = <<>>
    /\ report.result = "completed" =>
          /\ report.err = NoErr
          /\ report.errors = Cardinality({i \in DOMAIN trace :
                                            trace[i].result \in ErrorResults})
    /\ (config.RunOnce /\ pc = "exit" /\ report.result # "none") =>
          exitCode = (IF report.result = "failed" THEN 1 ELSE 0)

C26_ReturnStep ==
    (report.result = "none" /\ report'.result # "none") =>
        /\ report'.result = "failed" <=> AllCandidatesFailed
        /\ report'.result = "completed" <=> ~AllCandidatesFailed
        /\ ~AllCandidatesFailed => pc \in {"fetched", "loop", "attempt"}

C26_ErrorIffFetchFailed == []C26_ResultState /\ [][C26_ReturnStep]_vars

\* single-pass mode, every binding of the example errored: the pass completed
\* and the process ended with status 0
C26_Witness ==
    /\ config.RunOnce
    /\ pc = "exit"
    /\ exitCode = 0
    /\ projects = InvExample
    /\ report = [result |-> "completed", processed |-> 0, skipped |-> 0,
                 errors |-> 3, err |-> NoErr]

\* continuous mode, a pass with an errored binding: Run is back at its select
\* with a completed pass
C26_WitnessDaemon ==
    /\ ~config.RunOnce
    /\ pc = "select"
    /\ report.result = "completed"
    /\ report.errors >= 1

----------------------------------------------------------------------------
(***************************************************************************)
(* Recovery from pass to pass.  Continuous mode with ForceSync false; one   *)
(* binding <<Name, Host>> is followed.  From pass HealthyFrom on the        *)
(* source answers every fetch with a decodable 200 that lists the binding   *)
(* in an eligible entry, and the target answers every POST with a 2xx.  The *)
(* engine takes its next step when it has one (every HTTP call returns:     *)
(* both clients have a timeout) and the ticker goes on firing.              *)
(***************************************************************************)
FollowedBindings == {<<Web, HostA>>, <<(<<"x">>), (<<"y", ".">>)>>, <<Long58, HostB>>}

HealthyFrom == MaxPasses

RecoverInit ==
    /\ config \in {c \in RunConfigs : ~c.RunOnce /\ ~c.ForceSync}
    /\ pc = "main"
    /\ ctxDone = FALSE
    /\ cancelledMidPass = FALSE
    /\ tickPending = FALSE
    /\ passCount = 0
    /\ ticksTaken = 0
    /\ endpointIdx = 0
    /\ lastErr = NoErr
    /\ projects = <<>>
    /\ ei = 0
    /\ di = 0
    /\ processed = 0
    /\ skipped = 0
    /\ errors = 0
    /\ processedApps = {}
    /\ blueprint = NoBlueprint
    /\ attempt = 0
    /\ tried = <<>>
    /\ lastResp = NoResponse
    /\ trace = <<>>
    /\ calls = 0
    /\ posts = 0
    /\ sleeps = 0
    /\ ledgerAtStart = {}
    /\ published = [n \in {} |-> 0]
    /\ target = [n \in {} |-> NoBlueprint]
    /\ sent = {}
    /\ answer = "none"
    /\ gets = 0
    /\ recovery \in [binding : FollowedBindings, failed : {FALSE}]
    /\ report = NoReport
    /\ exitCode = -1
    /\ fnIn = NoFn
    /\ fnOut = NoOut

\* inventory inv has binding b in an entry syncApps does not skip
Lists(inv, b) ==
    \E x \in BindingsIn(inv) :
        /\ GroupIn(inv, x[1], x[2])[x[3]].Status = "done"
        /\ <<GroupIn(inv, x[1], x[2])[x[3]].Name,
             GroupIn(inv, x[1], x[2])[x[3]].Domains[x[4]].Host>> = b

\* what the source and the target answer in the passes from HealthyFrom on
HealthyEnvironment ==
    passCount' >= HealthyFrom =>
        /\ Len(tried') > Len(tried) =>
              /\ ~lastResp'.err /\ lastResp'.status = 200 /\ lastResp'.json
              /\ Lists(lastResp'.body, recovery.binding)
        /\ answer' # "other"

EngineStep ==
    \/ Main
    \/ Run
    \/ GetDokployProjects
    \/ SyncApps
    \/ SkipEntry
    \/ ProcessAppDomain
    \/ CreateBlueprintWithRetry
    \/ SelectDone
    \/ SelectTick

RecoverNext ==
    \/ Main /\ HealthyEnvironment
    \/ Run /\ HealthyEnvironment
    \/ GetDokployProjects /\ HealthyEnvironment
    \/ SyncApps /\ HealthyEnvironment
    \/ SkipEntry /\ HealthyEnvironment
    \/ ProcessAppDomain /\ HealthyEnvironment
    \/ CreateBlueprintWithRetry /\ HealthyEnvironment
    \/ SelectDone /\ HealthyEnvironment
    \/ SelectTick /\ HealthyEnvironment
    \/ TickerFires
    \/ Cancel

RecoverSpec ==
    /\ RecoverInit
    /\ [][RecoverNext]_vars
    /\ WF_vars(EngineStep /\ HealthyEnvironment)
    /\ WF_vars(TickerFires)

\* C27: recovery from pass to pass, continuous mode, ForceSync false.  A
\* binding whose publish failed in one pass is attempted again in the next
\* pass with a fresh sequence of RetryAttempts attempts; when from some point
\* on every fetch succeeds and lists the binding, with a host, in an eligible
\* entry and the target answers 2xx, then with the ticker firing and no
\* cancellation its name is eventually in processedApps, and no POST is sent
\* for it after that.
FollowedName == ResourceNames[recovery.binding]

\* the pass has come to the followed binding, whose publish failed in the pass
\* before, and the step is one of the pass
FollowedReached ==
    /\ pc = "loop"
    /\ recovery.failed
    /\ Entries(projects)[ei].app.Status = "done"
    /\ Entries(projects)[ei].app.Domains # <<>>
    /\ <<Entries(projects)[ei].app.Name, Entries(projects)[ei].app.Domains[di].Host>>
          = recovery.binding
    /\ trace' # trace \/ pc' # pc

FreshSequence ==
    /\ pc' = "attempt"
    /\ attempt' = 1
    /\ calls' = 0
    /\ sleeps' = 0
    /\ blueprint'.ProxyResources[1].Name = FollowedName
    /\ blueprint'.ProxyResources[1].FullDomain = recovery.binding[2]

C27_AttemptedAgainStep == FollowedReached => FreshSequence

C27_SequenceState ==
    /\ pc = "attempt" =>
          /\ calls = attempt - 1
          /\ attempt \in 1..config.RetryAttempts
          /\ blueprint.ProxyResources[1].Name \notin processedApps
    /\ (pc # "attempt" /\ trace # <<>> /\ Last(trace).result = "publish-failed") =>
          calls = config.RetryAttempts

C27_LedgerKeptStep == processedApps \subseteq processedApps'

\* a pass before the healthy ones has ended with the followed binding errored
\* by its publish, and Run waits for the next tick
FailedAndWaiting ==
    /\ pc = "select"
    /\ ~ctxDone
    /\ passCount = HealthyFrom - 1
    /\ FailedInPass(recovery.binding)

Recovered == FollowedName \in processedApps

\* the name is in the ledger and the target has answered a POST of a
\* declaration of that name with a 2xx
RecoveredBy2xx ==
    /\ FollowedName \in processedApps
    /\ FollowedName \in DOMAIN published
    /\ published[FollowedName] >= 1
    /\ target[FollowedName].ProxyResources[1].Name = FollowedName

C27_RecoveryAcrossPasses ==
    /\ []C27_SequenceState
    /\ [][C27_AttemptedAgainStep /\ C27_LedgerKeptStep]_vars
    /\ (FailedAndWaiting ~> (Recovered \/ ctxDone))

\* C27 as amended: the binding is attempted again in the next pass unless a
\* 2xx for another binding of the same resource name has put the name into
\* processedApps in the meantime; it is then passed over as already processed.
C27_AttemptedAgainUnlessRecordedStep ==
    FollowedReached =>
        IF FollowedName \in processedApps
        THEN /\ RecoveredBy2xx
             /\ Last(trace').result = "already"
             /\ Len(trace') = Len(trace) + 1
             /\ pc' # "attempt"
             /\ processedApps' = processedApps
             /\ sent' = {}
        ELSE FreshSequence

C27_RecoveryUnlessRecorded ==
    /\ []C27_SequenceState
    /\ [][C27_AttemptedAgainUnlessRecordedStep /\ C27_LedgerKeptStep]_vars
    /\ (FailedAndWaiting ~> (RecoveredBy2xx \/ ctxDone))

\* the publish of web/a.io failed in the pass before; this pass has attempted
\* it afresh, got a 2xx at the first attempt and recorded the name
C27_Witness ==
    /\ recovery = [binding |-> <<Web, HostA>>, failed |-> TRUE]
    /\ passCount = HealthyFrom
    /\ pc = "select"
    /\ ~ctxDone
    /\ report.result = "completed"
    /\ WebA \notin ledgerAtStart
    /\ WebA \in processedApps
    /\ published[WebA] = 1

----------------------------------------------------------------------------
(***************************************************************************)
(* The engine under the scheduling of the code: the one thread takes its    *)
(* next step whenever it has one, every HTTP call returning (both clients   *)
(* have a timeout), and a select that keeps finding ctx.Done() ready        *)
(* takes that case in the end (Go chooses among the ready cases at random). *)
(***************************************************************************)
\* In continuous mode with ForceSync, where every pass publishes every binding
\* again, the passes are followed with one attempt a binding; the retry
\* sequences are followed in the other modes.
FairInit == Init /\ ((config.ForceSync /\ ~config.RunOnce) => config.RetryAttempts = 1)

FairSpec ==
    /\ FairInit
    /\ [][Next]_vars
    /\ WF_vars(EngineStep)
    /\ SF_vars(SelectDone)

\* C28: every pass ends.  Each HTTP call returning, a pass sends at most 4
\* GETs to the source and makes, for each binding, at most RetryAttempts
\* publish attempts with at most RetryAttempts - 1 delays, and then gets to
\* its report or to the return of the fetch failure; once the context is
\* cancelled Run returns in the end.  The GETs are the requests the source is
\* sent: dokployClient repeats the ones that end in a transport error.
C28_GetCeiling == validateConfig(config) = "nil" => gets <= Len(endpoints)

\* the second candidate has just ended in a transport error like the first:
\* two Get calls, more than four GETs
C28_GetCeilingBroken ==
    /\ pc = "fetch"
    /\ Len(tried) = 2
    /\ lastResp.err
    /\ gets > Len(endpoints)

\* Counted in calls (Get calls of getDokployProjects, createBlueprint calls
\* of the retry loop) the ceilings hold, and every pass ends.
BindingsSeen == Cardinality({i \in DOMAIN trace : trace[i].kind = "binding"})

C28_BoundedWork ==
    validateConfig(config) = "nil" =>
        /\ Len(tried) <= 4
        /\ calls <= config.RetryAttempts
        /\ sleeps <= config.RetryAttempts - 1
        /\ pc = "attempt" => attempt \in 1..config.RetryAttempts
        /\ pc = "fetch" => endpointIdx \in 1..4 /\ Len(tried) = endpointIdx - 1
        /\ InPass =>
              /\ ei \in DOMAIN Entries(projects)
              /\ Len(trace) <= Len(Entries(projects)) + Cardinality(EligibleBindings)
              /\ BindingsSeen <= Cardinality(EligibleBindings)

PassEnded == ~InSync /\ report.result \in {"completed", "failed"}

C28_PassTerminatesByCalls ==
    /\ []C28_BoundedWork
    /\ (InSync ~> PassEnded)
    /\ (ctxDone ~> (pc = "exit" /\ exitCode = 0))

\* a pass over the four entries of an inventory, of which two are skipped, one
\* is published and one exhausts its two attempts with one delay, has ended
C28_Witness ==
    /\ PassEnded
    /\ projects = InvDrift
    /\ config.RetryAttempts = 2
    /\ report = [result |-> "completed", processed |-> 1, skipped |-> 2,
                 errors |-> 1, err |-> NoErr]
    /\ calls = 2
    /\ sleeps = 1

\* cancelled, and Run has returned
C28_WitnessCancelled == ctxDone /\ pc = "exit" /\ exitCode = 0 /\ passCount = MaxPasses

====
